---- MODULE Spec2Model ----
(***************************************************************************)
(* A model of src/models/definitions/GAT.py: the GAT model (a stack of     *)
(* graph attention layers) and the edge-index attention layer              *)
(* GATLayerImp3.                                                           *)
(*                                                                         *)
(* Tensors are sequences (of sequences ...) of integers, indexed from 1;   *)
(* node ids in an edge index are the program's own, counted from 0.        *)
(* Real values are exact: a tensor holds integer numerators over a         *)
(* denominator that is fixed per stage of the forward pass (DenInput,      *)
(* DenProj, DenScores), so dropout's 1/(1-p) scaling and the leaky         *)
(* rectifier's slope lose nothing.                                         *)
(* An optional value (Python's None, or a local that is not bound yet) is  *)
(* the empty tuple; a present value v is the one-element tuple <<v>>.      *)
(***************************************************************************)
EXTENDS Integers, Sequences, FiniteSets, TLC

VARIABLES
    gat,        \* the GAT object a successful GAT(...) call returned, or None
    gat_ctor,   \* the GAT(...) call made: its arguments and how it ended
    gat_fwd,    \* the GAT.forward call made last: how it ended
    layer,      \* the GATLayerImp3 object a successful constructor call returned, or None
    layer_ctor, \* the GATLayerImp3(...) call made: its arguments and how it ended
    fwd         \* the GATLayerImp3.forward call in progress or just ended: arguments, exception, frame

vars == <<gat, gat_ctor, gat_fwd, layer, layer_ctor, fwd>>

-----------------------------------------------------------------------------
(* Bounds of the model.                                                    *)

MaxNodes == 2      \* most rows of a node feature matrix
MaxEdges == 2      \* most columns of an edge index
MaxLayers == 3     \* largest num_of_layers given to GAT(...)

WidthChoices == {1, 2}        \* width of an input feature matrix, entries of nfpl
InFeatureChoices == {2}       \* num_in_features of a layer built directly
HeadChoices == {1, 2}         \* num_of_heads
OutFeatureChoices == {2}      \* num_out_features of a layer built directly
FeatVals == {1}               \* entries of an input feature matrix
\* what the three initializer draws of one construction fill weight, scoring_fn_target
\* and scoring_fn_source with
XavierDraws == {<<1, 1, -1>>, <<-1, 1, 1>>}
MaskPatterns == {"keep", "odd"}  \* the Bernoulli draws of one dropout call
UninitVals == {0, 9}             \* what the memory of a fresh torch.Tensor(shape) may hold

-----------------------------------------------------------------------------
(* Values.                                                                 *)

None == <<>>
Some(v) == <<v>>

RECURSIVE SeqSum(_)
SeqSum(s) == IF s = <<>> THEN 0 ELSE s[1] + SeqSum(Tail(s))

\* range(a, b) of Python, as the sequence a, a+1, ..., b-1
PyRange(a, b) == [k \in 1..(IF b > a THEN b - a ELSE 0) |-> a + k - 1]

\* seq[k] of Python: k counts from 0, a negative k from the end
PyIndexOk(s, k) == k < Len(s) /\ k >= 0 - Len(s)
PyIndex(s, k) == s[(IF k < 0 THEN Len(s) + k ELSE k) + 1]

Filled2(rows, cols, v) == [r \in 1..rows |-> [c \in 1..cols |-> v]]
Filled3(a, b, c, v) == [i \in 1..a |-> [j \in 1..b |-> [k \in 1..c |-> v]]]

\* an exception that left a call: its type and the source line that raised it
Exc(type, line) == [type |-> type, line |-> line]

-----------------------------------------------------------------------------
(* class LayerType, get_layer_type                                         *)

LayerType == {"IMP1", "IMP2", "IMP3"}
NotALayerType == "not_a_member"       \* any value that is no LayerType member
LayerTypeInputs == LayerType \cup {NotALayerType}

\* debug: asserts are executed (the interpreter runs without -O)
get_layer_type(layer_type, debug) ==
    IF debug /\ layer_type \notin LayerType
    THEN [exc |-> Some(Exc("AssertionError", 16)), cls |-> ""]
    ELSE IF layer_type = "IMP1" THEN [exc |-> None, cls |-> "GATLayerImp1"]
    ELSE IF layer_type = "IMP2" THEN [exc |-> None, cls |-> "GATLayerImp2"]
    ELSE IF layer_type = "IMP3" THEN [exc |-> None, cls |-> "GATLayerImp3"]
    ELSE [exc |-> Some(Exc("Exception", 25)), cls |-> ""]

\* the keyword parameters each layer class's __init__ declares
InitParams(cls) ==
    IF cls = "GATLayerImp3"
    THEN {"num_in_features", "num_out_features", "num_of_heads", "concat", "activation",
          "dropout_prob", "add_skip_connection", "bias", "log_attention_weights"}
    ELSE {"num_in_features", "num_out_features", "num_of_heads", "concat", "activation",
          "dropout", "add_self_loops", "bias", "log_attention_weights"}

\* Python binds a call's keywords before the body runs: an undeclared one is a TypeError
BindsKeywords(cls, keywords) == keywords \subseteq InitParams(cls)

-----------------------------------------------------------------------------
(* Inputs of the forward calls.                                            *)

\* node feature matrices [N, F]
Features(n, f) == [1..n -> [1..f -> FeatVals]]
AllFeatures == UNION {Features(n, f) : n \in 1..MaxNodes, f \in WidthChoices}

source_nodes_dim == 0
target_nodes_dim == 1

\* edge indexes [2, E] over the ids 0..n: with n nodes, id n is out of range
EdgeIndexes(n, maxE) ==
    UNION {{<<s, t>> : s \in [1..e -> 0..n], t \in [1..e -> 0..n]} : e \in 0..maxE}

Sources(edge_index) == edge_index[source_nodes_dim + 1]
Targets(edge_index) == edge_index[target_nodes_dim + 1]

-----------------------------------------------------------------------------
(* class GAT                                                               *)

\* what the model keeps of a layer object built by GAT.__init__: its class and the
\* arguments of the constructor call
LayerObject(cls, num_in, num_out, heads, dropout, concat, activation) ==
    [cls |-> cls, num_in_features |-> num_in, num_out_features |-> num_out,
     num_of_heads |-> heads, dropout |-> dropout, concat |-> concat,
     activation |-> activation]

\* the i the list comprehension of line 39 runs over
InteriorRange_upto_last(num_of_layers) == PyRange(1, num_of_layers)
InteriorRange(num_of_layers) == PyRange(1, num_of_layers - 1)

\* line 39, one element: the arguments are evaluated, then the call is bound
InteriorExc(cls, nfpl, nhpl, i) ==
    IF ~(PyIndexOk(nfpl, i - 1) /\ PyIndexOk(nfpl, i) /\ PyIndexOk(nhpl, i))
    THEN Some(Exc("IndexError", 39))
    ELSE IF ~BindsKeywords(cls, {"dropout"}) THEN Some(Exc("TypeError", 39))
    ELSE None

\* line 40
FinalExc(cls, nfpl, nhpl) ==
    IF ~(PyIndexOk(nfpl, -2) /\ PyIndexOk(nfpl, -1) /\ PyIndexOk(nhpl, -1))
    THEN Some(Exc("IndexError", 40))
    ELSE IF ~BindsKeywords(cls, {"dropout", "concat", "activation"})
    THEN Some(Exc("TypeError", 40))
    ELSE None

\* GAT.__init__: the exception that leaves it, or the object built
GAT_init(num_of_layers, nhpl, nfpl, dropout, layer_type, debug) ==
    LET got == get_layer_type(layer_type, debug)
        GATLayer == got.cls
        rng == InteriorRange(num_of_layers)
        bad == {k \in 1..Len(rng) : InteriorExc(GATLayer, nfpl, nhpl, rng[k]) # None}
        first == CHOOSE k \in bad : \A j \in bad : k <= j
        interior == [k \in 1..Len(rng) |->
                        LayerObject(GATLayer, PyIndex(nfpl, rng[k] - 1), PyIndex(nfpl, rng[k]),
                                    PyIndex(nhpl, rng[k]), dropout, TRUE, "ELU")]
        final == LayerObject(GATLayer, PyIndex(nfpl, -2), PyIndex(nfpl, -1),
                             PyIndex(nhpl, -1), dropout, FALSE, "Softmax")
    IN  IF got.exc # None THEN [exc |-> got.exc, self |-> None]
        ELSE IF bad # {}
        THEN [exc |-> InteriorExc(GATLayer, nfpl, nhpl, rng[first]), self |-> None]
        ELSE IF FinalExc(GATLayer, nfpl, nhpl) # None
        THEN [exc |-> FinalExc(GATLayer, nfpl, nhpl), self |-> None]
        ELSE [exc |-> None, self |-> Some([gat_net |-> Append(interior, final)])]

\* nn.Sequential.forward declares one input
SequentialInputs == 1

\* a module call of nn.Sequential: each module gets the previous one's output. The
\* stub layers define no forward, so nn.Module's own raises NotImplementedError.
Sequential_call(net, args) ==
    IF Len(args) # SequentialInputs
    THEN [exc |-> Some(Exc("TypeError", 44)), ret |-> None, layers_run |-> <<>>]
    ELSE IF net[1].cls \in {"GATLayerImp1", "GATLayerImp2"}
    THEN [exc |-> Some(Exc("NotImplementedError", 44)), ret |-> None, layers_run |-> <<>>]
    ELSE [exc |-> Some(Exc("TypeError", 44)), ret |-> None, layers_run |-> <<>>]

\* GAT.forward
GAT_forward(self, graph, edge_index) == Sequential_call(self.gat_net, <<graph, edge_index>>)

-----------------------------------------------------------------------------
(* class GATLayerImp3: construction                                        *)

\* nn.Dropout(p) with the default p = 0.6 keeps an element with probability 1 - p and
\* scales what it keeps by 1/(1 - p) = KeepNum/KeepDen
KeepNum == 5
KeepDen == 2
\* nn.LeakyReLU(0.2): the slope LeakyNum/LeakyDen below zero
LeakyNum == 1
LeakyDen == 5

DenInput == KeepDen                 \* of in_nodes_features after line 132
DenProj == DenInput * KeepDen       \* of nodes_features_proj after line 138
DenScores == DenProj * LeakyDen     \* of scores_per_edge after line 144

\* lines 58-95: the attributes set before init_params runs. torch.Tensor(shape) leaves
\* the tensor's memory as it is: it holds junk until an initializer overwrites it.
GATLayerImp3_fields(num_in_features, num_out_features, num_of_heads, concat, activation, add_skip_connection, bias, log_attention_weights, junk) ==
    [num_of_heads |-> num_of_heads,
     num_out_features |-> num_out_features,
     num_in_features |-> num_in_features,
     concat |-> concat,
     add_skip_connection |-> add_skip_connection,
     weight |-> Filled2(num_of_heads * num_out_features, num_in_features, junk),
     scoring_fn_target |-> Filled3(1, num_of_heads, num_out_features, junk),
     scoring_fn_source |-> Filled3(1, num_of_heads, num_out_features, junk),
     bias |-> IF bias /\ concat THEN Some([k \in 1..(num_of_heads * num_out_features) |-> junk])
              ELSE IF bias /\ ~concat THEN Some([k \in 1..num_out_features |-> junk])
              ELSE None,
     activation |-> activation,
     log_attention_weights |-> log_attention_weights,
     attention_weights |-> None,
     training |-> TRUE]

\* init_params: three Xavier draws (wW, wT, wS), then zeros_ on the bias, which calls
\* bias.zero_() and so raises AttributeError when the bias is None
init_params(self, wW, wT, wS) ==
    LET drawn == [self EXCEPT
                    !.weight = Filled2(self.num_of_heads * self.num_out_features,
                                       self.num_in_features, wW),
                    !.scoring_fn_target = Filled3(1, self.num_of_heads, self.num_out_features, wT),
                    !.scoring_fn_source = Filled3(1, self.num_of_heads, self.num_out_features, wS)]
    IN  IF self.bias = None
        THEN [exc |-> Some(Exc("AttributeError", 111)), self |-> drawn]
        ELSE [exc |-> None,
              self |-> [drawn EXCEPT !.bias = Some([k \in 1..Len(self.bias[1]) |-> 0])]]

\* GATLayerImp3.__init__: the exception that leaves it, or the object built
GATLayerImp3_init(num_in_features, num_out_features, num_of_heads, concat, activation, add_skip_connection, bias, log_attention_weights, junk, wW, wT, wS) ==
    LET r == init_params(GATLayerImp3_fields(num_in_features, num_out_features, num_of_heads,
                                             concat, activation, add_skip_connection, bias,
                                             log_attention_weights, junk), wW, wT, wS)
    IN  IF r.exc # None THEN [exc |-> r.exc, self |-> None]
        ELSE [exc |-> None, self |-> Some(r.self)]

-----------------------------------------------------------------------------
(* class GATLayerImp3: forward                                             *)

\* whether a dropout call keeps the element at flat position k (counted from 1)
Kept(pattern, k) == pattern = "keep" \/ (pattern = "odd" /\ k % 2 = 1)

\* nn.Dropout on one element; the result is over KeepDen times the denominator
DropoutElem(v, pattern, k, training) ==
    IF ~training THEN v * KeepDen
    ELSE IF Kept(pattern, k) THEN v * KeepNum
    ELSE 0

Dropout2(t, pattern, training) ==
    [n \in 1..Len(t) |-> [f \in 1..Len(t[n]) |->
        DropoutElem(t[n][f], pattern, (n - 1) * Len(t[n]) + f, training)]]

Dropout3(t, pattern, training) ==
    [n \in 1..Len(t) |-> [h \in 1..Len(t[n]) |-> [f \in 1..Len(t[n][h]) |->
        DropoutElem(t[n][h][f], pattern,
                    ((n - 1) * Len(t[n]) + (h - 1)) * Len(t[n][h]) + f, training)]]]

\* nn.Linear without bias: x times the transposed weight
Linear(x, weight) ==
    [n \in 1..Len(x) |-> [j \in 1..Len(weight) |->
        SeqSum([k \in 1..Len(x[n]) |-> x[n][k] * weight[j][k]])]]

\* Tensor.view(-1, heads, out) of an [N, heads * out] tensor
View3(t, heads, out) ==
    [n \in 1..Len(t) |-> [h \in 1..heads |-> [f \in 1..out |-> t[n][(h - 1) * out + f]]]]

\* (proj * scoring_fn).sum(dim=-1): scoring_fn is [1, NH, FOUT], broadcast over the nodes
Scores(proj, scoring_fn) ==
    [n \in 1..Len(proj) |-> [h \in 1..Len(proj[n]) |->
        SeqSum([f \in 1..Len(proj[n][h]) |-> proj[n][h][f] * scoring_fn[1][h][f]])]]

\* Tensor.index_select(0, index): it raises IndexError for an id outside 0..N-1
IndexInRange(index, n) == \A k \in 1..Len(index) : index[k] \in 0..(n - 1)
index_select(t, index) == [k \in 1..Len(index) |-> t[index[k] + 1]]

LeakyReLUElem(v) == IF v >= 0 THEN v * LeakyDen ELSE v * LeakyNum

\* the frame of a forward call: self, the arguments, the dropout draws of this call, the
\* locals bound so far, and the exception that ended it
Frame(self, in_nodes_features, edge_index, m1, m2) ==
    [self |-> self, exc |-> None, arg |-> in_nodes_features, edge_index |-> edge_index,
     m1 |-> m1, m2 |-> m2,
     num_of_nodes |-> None, in_nodes_features |-> None, nodes_features_proj |-> None,
     scores_source |-> None, scores_target |-> None, scores_per_edge |-> None,
     nodes_features_proj_lifted |-> None, attentions_per_edge |-> None,
     out_nodes_features |-> None, ret |-> None]

\* lines 129-132
Line129_132(e) ==
    [e EXCEPT !.num_of_nodes = Some(Len(e.arg)),
              !.in_nodes_features = Some(Dropout2(e.arg, e.m1, e.self.training))]

\* lines 136-138: the projection raises when the input's width is not num_in_features
Line136_138(e) ==
    IF e.exc # None THEN e
    ELSE IF \E n \in 1..Len(e.arg) : Len(e.arg[n]) # e.self.num_in_features
    THEN [e EXCEPT !.exc = Some(Exc("RuntimeError", 136))]
    ELSE [e EXCEPT !.nodes_features_proj =
            Some(Dropout3(View3(Linear(e.in_nodes_features[1], e.self.weight),
                                e.self.num_of_heads, e.self.num_out_features),
                          e.m2, e.self.training))]

\* lines 140-141
Line140_141(e) ==
    IF e.exc # None THEN e
    ELSE [e EXCEPT
            !.scores_source = Some(Scores(e.nodes_features_proj[1], e.self.scoring_fn_source)),
            !.scores_target = Some(Scores(e.nodes_features_proj[1], e.self.scoring_fn_target))]

\* lift, lines 113-120: the three gathers, or the line whose gather raises
lift(scores_source, scores_target, nodes_features_matrix_proj, edge_index) ==
    IF ~IndexInRange(Sources(edge_index), Len(scores_source))
    THEN [exc |-> Some(Exc("IndexError", 116)), ret |-> None]
    ELSE IF ~IndexInRange(Targets(edge_index), Len(scores_target))
    THEN [exc |-> Some(Exc("IndexError", 117)), ret |-> None]
    ELSE [exc |-> None,
          ret |-> Some(<<index_select(scores_source, Sources(edge_index)),
                         index_select(scores_target, Targets(edge_index)),
                         index_select(nodes_features_matrix_proj, Sources(edge_index))>>)]

\* lines 143-144
Line143_144_caching(e) ==
    IF e.exc # None THEN e
    ELSE LET r == lift(e.scores_source[1], e.scores_target[1], e.nodes_features_proj[1],
                       e.edge_index)
             s == [k \in 1..Len(r.ret[1][1]) |-> [h \in 1..Len(r.ret[1][1][k]) |->
                      LeakyReLUElem(r.ret[1][1][k][h] + r.ret[1][2][k][h])]]
         IN  IF r.exc # None THEN [e EXCEPT !.exc = r.exc]
             ELSE [e EXCEPT !.nodes_features_proj_lifted = Some(r.ret[1][3]),
                            !.scores_per_edge = Some(s),
                            !.self = IF e.self.log_attention_weights
                                     THEN [e.self EXCEPT !.attention_weights = Some(s)]
                                     ELSE e.self]
Line143_144(e) ==
    IF e.exc # None THEN e
    ELSE LET r == lift(e.scores_source[1], e.scores_target[1], e.nodes_features_proj[1],
                       e.edge_index)
         IN  IF r.exc # None THEN [e EXCEPT !.exc = r.exc]
             ELSE [e EXCEPT !.nodes_features_proj_lifted = Some(r.ret[1][3]),
                            !.scores_per_edge =
                                Some([k \in 1..Len(r.ret[1][1]) |->
                                        [h \in 1..Len(r.ret[1][1][k]) |->
                                            LeakyReLUElem(r.ret[1][1][k][h] + r.ret[1][2][k][h])]])]

\* line 146: the class body (lines 47-169) defines __init__, init_params, lift, broadcast
\* and forward, and __init__ sets no attribute of this name, so the attribute lookup
\* self.scatter_softmax raises AttributeError before anything is called
GATLayerImp3_attributes ==
    {"source_nodes_dim", "target_nodes_dim", "__init__", "init_params", "lift", "broadcast",
     "forward", "num_of_heads", "num_out_features", "concat", "add_skip_connection",
     "linear_proj", "scoring_fn_target", "scoring_fn_source", "bias", "leakyReLU",
     "activation", "dropout", "log_attention_weights", "attention_weights"}

Line146(e) ==
    IF e.exc # None THEN e
    ELSE IF "scatter_softmax" \notin GATLayerImp3_attributes
    THEN [e EXCEPT !.exc = Some(Exc("AttributeError", 146))]
    ELSE e

\* GATLayerImp3.forward as far as control gets: the frame when the call ends
forward(self, in_nodes_features, edge_index, m1, m2) ==
    Line146(Line143_144(Line140_141(Line136_138(Line129_132(
        Frame(self, in_nodes_features, edge_index, m1, m2))))))

NfplInputs == UNION {[1..n -> WidthChoices] : n \in 0..(MaxLayers + 1)}
NhplInputs == UNION {[1..n -> HeadChoices] : n \in 0..MaxLayers}
DefaultDropout == "0.6"

NoCall == [outcome |-> "none", exc |-> None]

ConstructGAT ==
    /\ gat_ctor.outcome = "none"
    /\ \E num_of_layers \in 1..MaxLayers, nhpl \in NhplInputs, nfpl \in NfplInputs,
          layer_type \in LayerTypeInputs, debug \in BOOLEAN :
          LET r == GAT_init(num_of_layers, nhpl, nfpl, DefaultDropout, layer_type, debug)
          IN  /\ gat' = r.self
              /\ gat_ctor' = [outcome |-> IF r.exc = None THEN "returned" ELSE "raised",
                              exc |-> r.exc, num_of_layers |-> num_of_layers,
                              nhpl |-> nhpl, nfpl |-> nfpl, layer_type |-> layer_type]
    /\ UNCHANGED <<gat_fwd, layer, layer_ctor, fwd>>

CallGATForward ==
    /\ gat # None
    /\ gat_fwd.outcome = "none"
    /\ \E n \in 1..MaxNodes :
       \E graph \in Features(n, 1), edge_index \in EdgeIndexes(n, 1) :
          LET r == GAT_forward(gat[1], graph, edge_index)
          IN  gat_fwd' = [outcome |-> IF r.exc = None THEN "returned" ELSE "raised",
                          exc |-> r.exc, ret |-> r.ret, layers_run |-> r.layers_run,
                          graph |-> graph, edge_index |-> edge_index]
    /\ UNCHANGED <<gat, gat_ctor, layer, layer_ctor, fwd>>

ConstructLayer ==
    /\ layer_ctor.outcome = "none"
    /\ \E num_in_features \in InFeatureChoices, num_out_features \in OutFeatureChoices,
          num_of_heads \in HeadChoices, concat \in BOOLEAN, bias \in BOOLEAN,
          log_attention_weights \in BOOLEAN, junk \in UninitVals, w \in XavierDraws :
          LET r == GATLayerImp3_init(num_in_features, num_out_features, num_of_heads, concat,
                                     "ELU", TRUE, bias, log_attention_weights, junk,
                                     w[1], w[2], w[3])
          IN  /\ layer' = r.self
              /\ layer_ctor' = [outcome |-> IF r.exc = None THEN "returned" ELSE "raised",
                                exc |-> r.exc, num_out_features |-> num_out_features,
                                num_of_heads |-> num_of_heads, concat |-> concat,
                                bias |-> bias]
    /\ UNCHANGED <<gat, gat_ctor, gat_fwd, fwd>>

\* nn.Module.train(mode) / eval(), inherited: dropout acts only in training mode
SetTraining ==
    /\ layer # None
    /\ fwd.outcome = "none"
    /\ layer' = Some([layer[1] EXCEPT !.training = ~layer[1].training])
    /\ UNCHANGED <<gat, gat_ctor, gat_fwd, layer_ctor, fwd>>

\* one call of forward on the layer, from entry to the return or the raise
CallForward ==
    /\ layer # None
    /\ fwd.outcome = "none"
    /\ \E in_nodes_features \in AllFeatures :
       \E edge_index \in EdgeIndexes(Len(in_nodes_features), MaxEdges) :
       \E m1 \in (IF layer[1].training THEN MaskPatterns ELSE {"keep"}),
          m2 \in (IF layer[1].training THEN MaskPatterns ELSE {"keep"}) :
          \E e \in {forward(layer[1], in_nodes_features, edge_index, m1, m2)} :
              /\ layer' = Some(e.self)
              /\ fwd' = [outcome |-> IF e.exc = None THEN "returned" ELSE "raised",
                         exc |-> e.exc, in_nodes_features |-> in_nodes_features,
                         edge_index |-> edge_index,
                         nodes_features_proj_lifted |-> e.nodes_features_proj_lifted,
                         scores_per_edge |-> e.scores_per_edge,
                         attentions_per_edge |-> e.attentions_per_edge,
                         out_nodes_features |-> e.out_nodes_features,
                         ret |-> e.ret]
    /\ UNCHANGED <<gat, gat_ctor, gat_fwd, layer_ctor>>

\* the caller is done with the call that ended: its frame and exception are dropped,
\* the layer object stays as the call left it
DropFrame ==
    /\ fwd.outcome # "none"
    /\ fwd' = NoCall
    /\ UNCHANGED <<gat, gat_ctor, gat_fwd, layer, layer_ctor>>

\* the caller is done with the GAT.forward call that ended
DropGATFrame ==
    /\ gat_fwd.outcome # "none"
    /\ gat_fwd' = NoCall
    /\ UNCHANGED <<gat, gat_ctor, layer, layer_ctor, fwd>>

InitGAT ==
    /\ gat = None
    /\ gat_ctor = NoCall
    /\ gat_fwd = NoCall

InitLayer ==
    /\ layer = None
    /\ layer_ctor = NoCall
    /\ fwd = NoCall

Init == InitGAT /\ InitLayer

NextGAT == ConstructGAT \/ CallGATForward \/ DropGATFrame

SpecGAT == Init /\ [][NextGAT]_vars

NextLayer == ConstructLayer \/ SetTraining \/ CallForward \/ DropFrame

SpecLayer == Init /\ [][NextLayer]_vars

-----------------------------------------------------------------------------
(* Claims about GAT.                                                       *)

\* C5. GAT.forward applies the stacked layers in order: the first gets the model's input
\* features, each later one the previous one's output, every one the edge index given to
\* the model, and the last one's output is returned. An entry of layers_run is one layer
\* call: [input, edge_index, output].
C5_LayersThreaded ==
    gat_fwd.outcome # "none" =>
        /\ gat_fwd.outcome = "returned"
        /\ Len(gat_fwd.layers_run) = Len(gat[1].gat_net)
        /\ gat_fwd.layers_run[1].input = gat_fwd.graph
        /\ \A k \in 1..Len(gat_fwd.layers_run) :
              /\ gat_fwd.layers_run[k].edge_index = gat_fwd.edge_index
              /\ k > 1 => gat_fwd.layers_run[k].input = gat_fwd.layers_run[k - 1].output
        /\ gat_fwd.ret = Some(gat_fwd.layers_run[Len(gat_fwd.layers_run)].output)

\* the layers of a built model are the interior ones of range(1, num_of_layers - 1), each
\* built from nfpl[i - 1], nfpl[i], nhpl[i], then one final layer built from nfpl[-2],
\* nfpl[-1], nhpl[-1] with concat=False and the softmax activation
C6_Wiring ==
    LET net == gat[1].gat_net
        c == gat_ctor
    IN  /\ \A k \in 1..(Len(net) - 1) :
              /\ net[k].num_in_features = PyIndex(c.nfpl, k - 1)
              /\ net[k].num_out_features = PyIndex(c.nfpl, k)
              /\ net[k].num_of_heads = PyIndex(c.nhpl, k)
              /\ net[k].concat
        /\ net[Len(net)].num_in_features = PyIndex(c.nfpl, -2)
        /\ net[Len(net)].num_out_features = PyIndex(c.nfpl, -1)
        /\ net[Len(net)].num_of_heads = PyIndex(c.nhpl, -1)
        /\ ~net[Len(net)].concat
        /\ net[Len(net)].activation = "Softmax"

\* C6, as stated. A GAT model constructed with num_of_layers = L contains L - 1 layers in
\* total: the interior layers, followed by one final layer built with concat=False and
\* softmax activation.
C6_LayerCount ==
    gat_ctor.outcome = "returned" =>
        /\ Len(gat[1].gat_net) = gat_ctor.num_of_layers - 1
        /\ C6_Wiring

\* C6, amended. A GAT model constructed with num_of_layers = L contains L - 1 layers when
\* L >= 2 and exactly one layer, the final one, when L < 2; the layers are wired as above.
C6_LayerCountFromTwo ==
    gat_ctor.outcome = "returned" =>
        /\ Len(gat[1].gat_net) =
              (IF gat_ctor.num_of_layers >= 2 THEN gat_ctor.num_of_layers - 1 ELSE 1)
        /\ C6_Wiring

\* a model with interior layers has been built
C6_Witness ==
    /\ gat_ctor.outcome = "returned"
    /\ gat_ctor.num_of_layers >= 3
    /\ Len(gat[1].gat_net) = gat_ctor.num_of_layers - 1

\* C7. Constructing a GAT with an unsupported layer variant (no LayerType member, or one of
\* the unimplemented IMP1 and IMP2) raises during construction and produces no model;
\* constructing it with IMP3 raises no error of configuration (an IndexError for lists too
\* short for num_of_layers is an error of the arguments, not of the variant).
C7_UnsupportedVariantRaises ==
    gat_ctor.outcome # "none" =>
        /\ gat_ctor.layer_type \in {NotALayerType, "IMP1", "IMP2"} =>
              (gat_ctor.outcome = "raised" /\ gat = None)
        /\ gat_ctor.layer_type = "IMP3" =>
              (gat_ctor.exc = None \/ gat_ctor.exc[1].type = "IndexError")

-----------------------------------------------------------------------------
(* Claims about GATLayerImp3.                                              *)

NumNodes == Len(fwd.in_nodes_features)
NumEdges == Len(Targets(fwd.edge_index))
EdgesInto(t) == {k \in 1..NumEdges : Targets(fwd.edge_index)[k] = t}

\* the forward call that ended was given what the layer requires: ids in [0, N) and rows
\* of num_in_features entries
ValidCallEnded ==
    /\ fwd.outcome # "none"
    /\ IndexInRange(Sources(fwd.edge_index), NumNodes)
    /\ IndexInRange(Targets(fwd.edge_index), NumNodes)
    /\ \A n \in 1..NumNodes : Len(fwd.in_nodes_features[n]) = layer[1].num_in_features

\* A weight is a fraction <<p, q>>, q > 0. The sum of the fractions w[k], k in S:
RECURSIVE FracSum(_, _)
FracSum(w, S) ==
    IF S = {} THEN <<0, 1>>
    ELSE LET k == CHOOSE x \in S : TRUE
             r == FracSum(w, S \ {k})
         IN  <<w[k][1] * r[2] + r[1] * w[k][2], w[k][2] * r[2]>>
FracEq(a, b) == a[1] * b[2] = b[1] * a[2]

\* weights [E, NH] sum to one over the edges into each node that has any, per head
Normalized(weights) ==
    \A t \in 0..(NumNodes - 1) : \A h \in 1..layer[1].num_of_heads :
        EdgesInto(t) # {} =>
            FracEq(FracSum([k \in 1..NumEdges |-> weights[k][h]], EdgesInto(t)), <<1, 1>>)

\* C1. For every valid edge index, head and target node with an incoming edge, the
\* attention weights forward obtains from the segmented softmax sum to 1 over exactly the
\* edges whose target is that node.
C1_WeightsSumToOne ==
    (ValidCallEnded /\ \E t \in 0..(NumNodes - 1) : EdgesInto(t) # {}) =>
        /\ fwd.attentions_per_edge # None
        /\ Normalized(fwd.attentions_per_edge[1])

\* C2. With concat=true, a node that is the target of no edge gets an output row that is
\* exactly the bias (all zeros without a bias).
C2_IsolatedRowIsBias ==
    (ValidCallEnded /\ layer[1].concat /\ \E t \in 0..(NumNodes - 1) : EdgesInto(t) = {}) =>
        /\ fwd.ret # None
        /\ \A t \in 0..(NumNodes - 1) : EdgesInto(t) = {} =>
              \A j \in 1..Len(fwd.ret[1][t + 1]) :
                  fwd.ret[1][t + 1][j] = (IF layer[1].bias = None THEN 0 ELSE layer[1].bias[1][j])

ColumnOrders(n) == {p \in [1..n -> 1..n] : \A i, j \in 1..n : p[i] = p[j] => i = j}
PermuteColumns(edge_index, p) ==
    <<[k \in 1..Len(p) |-> Sources(edge_index)[p[k]]],
      [k \in 1..Len(p) |-> Targets(edge_index)[p[k]]]>>

\* C3. forward returns the same output node features for every permutation of the edge
\* index's columns (stated with dropout off, so that the output is a function of the
\* input, and for edge indexes of two columns or more, which have an order to change).
C3_EdgeOrderIrrelevant ==
    (ValidCallEnded /\ ~layer[1].training /\ NumEdges >= 2) =>
        /\ fwd.ret # None
        /\ \A p \in ColumnOrders(NumEdges) :
              forward(layer[1], fwd.in_nodes_features, PermuteColumns(fwd.edge_index, p),
                      "keep", "keep").ret = fwd.ret

\* C4. Before head combination the aggregate forward holds has shape [N, NH, FOUT], and its
\* entry for target t, head h, feature f is the sum over the edges into t of the edge's
\* weight for h times the source's projected feature (h, f).
C4_AggregateIsWeightedSum ==
    (ValidCallEnded /\ NumEdges >= 1) =>
        /\ fwd.attentions_per_edge # None
        /\ fwd.out_nodes_features # None
        /\ Len(fwd.out_nodes_features[1]) = NumNodes
        /\ \A t \in 0..(NumNodes - 1) :
              /\ Len(fwd.out_nodes_features[1][t + 1]) = layer[1].num_of_heads
              /\ \A h \in 1..layer[1].num_of_heads :
                    /\ Len(fwd.out_nodes_features[1][t + 1][h]) = layer[1].num_out_features
                    /\ \A f \in 1..layer[1].num_out_features :
                          FracEq(fwd.out_nodes_features[1][t + 1][h][f],
                                 FracSum([k \in 1..NumEdges |->
                                            <<fwd.attentions_per_edge[1][k][h][1]
                                                * fwd.nodes_features_proj_lifted[1][k][h][f],
                                              fwd.attentions_per_edge[1][k][h][2] * DenProj>>],
                                         EdgesInto(t)))

\* C8. With log_attention_weights enabled, after a forward call the layer's
\* attention_weights holds the normalized weights of that call, the most recent one.
C8_CacheHoldsLastWeights ==
    (ValidCallEnded /\ layer[1].log_attention_weights /\ NumEdges >= 1) =>
        /\ layer[1].attention_weights # None
        /\ layer[1].attention_weights = fwd.attentions_per_edge
        /\ Normalized(layer[1].attention_weights[1])

\* C9. Whenever a forward call fails, the layer (its parameters and its attention_weights)
\* is as it was before the call.
C9_FailedCallChangesNothing ==
    [][(fwd.outcome = "none" /\ fwd'.outcome = "raised") => layer' = layer]_vars

\* a call on a well-formed input has failed on a layer that logs its attention weights
C9_Witness ==
    /\ ValidCallEnded
    /\ fwd.outcome = "raised"
    /\ layer[1].log_attention_weights
    /\ fwd.scores_per_edge # None
    /\ NumEdges >= 1

\* C10. Constructing a GATLayerImp3 with bias=False completes without error and yields a
\* layer whose bias is None; with bias=True the bias is all zeros, of length NH * FOUT when
\* concat is true and FOUT otherwise.
C10_BiasOptional ==
    layer_ctor.outcome # "none" =>
        /\ layer_ctor.outcome = "returned"
        /\ ~layer_ctor.bias => layer[1].bias = None
        /\ layer_ctor.bias =>
              /\ layer[1].bias # None
              /\ Len(layer[1].bias[1]) =
                    (IF layer_ctor.concat
                     THEN layer_ctor.num_of_heads * layer_ctor.num_out_features
                     ELSE layer_ctor.num_out_features)
              /\ \A k \in 1..Len(layer[1].bias[1]) : layer[1].bias[1][k] = 0

====
